---- MODULE Spec2Model ----
(***************************************************************************)
(* Model of the MobileID-News list screen (NewsListScreen.tsx): the        *)
(* retrieval pipeline loadNews, its triggers, the responses of the news    *)
(* gateway (newsService.ts) and what the screen renders (ErrorView).       *)
(*                                                                         *)
(* The JavaScript runs on one event loop: a handler runs to its first      *)
(* await without interruption, and the continuation of loadNews (lines    *)
(* 84-104) runs without interruption when the gateway promise settles.     *)
(* Each of these is one action.  React (18 and later: the file service    *)
(* uses expo-file-system v19) batches the state updates of one action and  *)
(* re-renders once after it, so the render guards of lines 151-157 are     *)
(* evaluated on every state.  The variables marked history record what     *)
(* the last step did; no action reads them.                                *)
(***************************************************************************)
EXTENDS Naturals, Sequences, FiniteSets, Bags, TLC

\* ---------------------------------------------------------------- bounds
\* loadNews calls made in one run of the screen.
MaxCalls == 4
\* loadNews calls outstanding at one time.
MaxInFlight == 2

\* ------------------------------------------------------- input alphabets
\* Texts of the search field: empty, and one non-empty text.
Queries == {"", "bitcoin"}

\* FilterModal.tsx CATEGORIES / DATE_RANGES / SORT_OPTIONS (two ids of each).
CATEGORIES == {"all", "business"}
DATE_RANGES == {"all", "week"}
SORT_OPTIONS == {"publishedAt", "relevancy"}

FilterOptions == [category : CATEGORIES, dateRange : DATE_RANGES, sortBy : SORT_OPTIONS]

\* useState<FilterOptions>({category:'all', dateRange:'all', sortBy:'publishedAt'})
defaultFilters == [category |-> "all", dateRange |-> "all", sortBy |-> "publishedAt"]

\* response.data.articles of a well-formed 2xx response, in server order
\* (articles are named by their url): an empty page and a page of two.
Pages == {<<>>, <<"u2", "u1">>}

\* The errors axios rejects with.  message is the Error message as a sequence
\* of words, code is error.code, status is error.response?.status (0: the
\* error carries no response), cause is what happened on the wire.
AxiosErrors ==
  { [cause |-> "offline", message |-> <<"Network", "Error">>,
     code |-> "ERR_NETWORK", status |-> 0],
    [cause |-> "timeout", message |-> <<"timeout", "of", "0ms", "exceeded">>,
     code |-> "ECONNABORTED", status |-> 0],
    [cause |-> "http", message |-> <<"Request", "failed", "with", "status", "code", "404">>,
     code |-> "ERR_BAD_REQUEST", status |-> 404],
    [cause |-> "http", message |-> <<"Request", "failed", "with", "status", "code", "500">>,
     code |-> "ERR_BAD_RESPONSE", status |-> 500],
    [cause |-> "http", message |-> <<"Request", "failed", "with", "status", "code", "503">>,
     code |-> "ERR_BAD_RESPONSE", status |-> 503] }

NoError == [cause |-> "none", message |-> <<>>, code |-> "none", status |-> 0]

\* ------------------------------------------------------------------ state
VARIABLES
  mounted,          \* the screen's mount effects (lines 107-115) have run
  articles,         \* useState<Article[]>([])
  articlesDefined,  \* FALSE when the articles state holds undefined
  loading,          \* useState(true)
  refreshing,       \* useState(false)
  error,            \* useState(null): "null", "network", "server", "general"
  searchQuery,      \* useState('')
  page,             \* useState(1)
  filters,          \* useState<FilterOptions>(...)
  inflight,         \* bag of loadNews calls awaiting their gateway promise
  crashed,          \* a render or a state updater threw: the tree is unmounted
  calls,            \* number of loadNews calls made so far
  lastEvent,        \* history: the kind of the last step
  lastReq,          \* history: the call the last step issued (NoReq: none)
  lastResp,         \* history: the articles of the response of the last step
  lastErr,          \* history: the error the last step caught
  failedReq,        \* history: the call whose failure set the current error
  filterPending,    \* history: filters changed, no successful fetch since
  newestReq,        \* history: the call made most recently while it is
                    \* outstanding (NoReq once it has settled)
  staleApplied      \* history: the last step applied a response to a call
                    \* made before the most recent one

vars == <<mounted, articles, articlesDefined, loading, refreshing, error,
          searchQuery, page, filters, inflight, crashed, calls,
          lastEvent, lastReq, lastResp, lastErr, failedReq, filterPending,
          newestReq, staleApplied>>

\* --------------------------------------------------------------- loadNews
\* Faulty variant of UsesSearch: && in place of ||.
UsesSearchAnd(query, f) == query # "" /\ f.dateRange # "all"

\* Lines 77-82: which gateway function loadNews calls.
UsesSearch(query, f) == query # "" \/ f.dateRange # "all"

\* Lines 77-82: the gateway call and its arguments.  from/to dates are
\* resolved from the dateRange id (lines 43-70), so the id stands for them.
GatewayCall(pageNum, query, f) ==
  IF UsesSearch(query, f)
  THEN [fn |-> "searchNews", query |-> IF query # "" THEN query ELSE "news",
        page |-> pageNum, category |-> "none",
        dateRange |-> f.dateRange, sortBy |-> f.sortBy]
  ELSE [fn |-> "fetchTopHeadlines", query |-> "",
        page |-> pageNum, category |-> f.category,
        dateRange |-> "none", sortBy |-> "none"]

\* One call of loadNews(pageNum, query) made while the screen's filters are f.
LoadNewsCall(pageNum, query, f) ==
  [pageNum |-> pageNum, query |-> query, call |-> GatewayCall(pageNum, query, f)]

NoReq == LoadNewsCall(0, "", defaultFilters)

InFlightSet == BagToSet(inflight)
Issue(r) == inflight (+) SetToBag({r})
Settle(r) == inflight (-) SetToBag({r})

\* The value of newestReq after call r settles.  Calls with equal arguments
\* are not told apart: the most recent call counts as settled when the last
\* outstanding call with its arguments settles.
NewestAfter(r) ==
  IF r = newestReq /\ CopiesIn(r, inflight) = 1 THEN NoReq ELSE newestReq

\* err.message?.includes('Network')
MessageIncludes(message, word) == \E i \in 1..Len(message) : message[i] = word

\* Faulty variant of Classify: status > 500 in place of >= 500.
ClassifyStrict(err) ==
  IF MessageIncludes(err.message, "Network") \/ err.code = "ECONNABORTED"
  THEN "network"
  ELSE IF err.status > 500 THEN "server" ELSE "general"

\* Lines 91-97: the classification of a caught error.
Classify(err) ==
  IF MessageIncludes(err.message, "Network") \/ err.code = "ECONNABORTED"
  THEN "network"
  ELSE IF err.status >= 500 THEN "server" ELSE "general"

\* ----------------------------------------------------------------- render
\* Lines 151 and 155 read articles.length: that throws when articles is
\* undefined and the left operand of && is truthy.
RenderThrows(defined, ld, err) == ~defined /\ (ld \/ err # "null")

\* ErrorView (part_003 lines 180-191).
getEmoji(type) ==
  CASE type = "network" -> "antenna"
    [] type = "server" -> "wrench"
    [] type = "notFound" -> "magnifier"
    [] OTHER -> "warning"

\* ErrorView (part_003 lines 193-204).
getTitle(type) ==
  CASE type = "network" -> "no connection"
    [] type = "server" -> "server error"
    [] type = "notFound" -> "not found"
    [] OTHER -> "error"

\* ErrorView (part_003 lines 220-240): which block of tips is rendered.
getTips(type) == IF type \in {"network", "server", "notFound"} THEN type ELSE "none"

\* ErrorView (part_003 lines 163-244): props is the record of the props it
\* is given; the component destructures message, onRetry, type, details and
\* type defaults to 'general'.
ErrorView(props) ==
  LET type == IF "type" \in DOMAIN props THEN props.type ELSE "general"
  IN  [screen |-> "ErrorView", emoji |-> getEmoji(type), title |-> getTitle(type),
       tips |-> getTips(type), retry |-> "onRetry" \in DOMAIN props,
       items |-> <<>>, notice |-> FALSE]

\* Line 156: the props NewsListScreen gives ErrorView.
ErrorViewProps == [errorType |-> error, onRetry |-> "loadNews()"]

\* Lines 151-207: what the screen shows.  The list view (lines 161-207)
\* renders the search bar, the filter button, the list and the filter modal.
Rendered ==
  IF ~mounted \/ crashed
  THEN [screen |-> "none", emoji |-> "none", title |-> "none", tips |-> "none",
        retry |-> FALSE, items |-> <<>>, notice |-> FALSE]
  ELSE IF loading /\ Len(articles) = 0
  THEN [screen |-> "LoadingSpinner", emoji |-> "none", title |-> "none", tips |-> "none",
        retry |-> FALSE, items |-> <<>>, notice |-> FALSE]
  ELSE IF error # "null" /\ Len(articles) = 0
  THEN ErrorView(ErrorViewProps)
  ELSE [screen |-> "list", emoji |-> "none", title |-> "none", tips |-> "none",
        retry |-> FALSE, items |-> articles, notice |-> FALSE]

ListShown == Rendered.screen = "list"

\* ------------------------------------------------- favorites store state
\* favoritesService (src/unnamed/part_006, lines 185-236).  An Article is
\* identified by its url; title stands for the rest of its fields.
Urls == {"u1", "u2"}
Titles == {"t1", "t2"}
Article == [url : Urls, title : Titles]
NoArticle == [url |-> "none", title |-> "none"]

\* The callers whose calls of the service may overlap: the favorite button of
\* ArticleDetailScreen (lines 57-71) and the remove button of FavoritesScreen
\* (part_001, lines 49-65) await the service with no call-in-progress guard.
Callers == {"c1", "c2"}

\* A call of the service: op is the exported function, pc the AsyncStorage
\* promise it awaits, pending the argument of its setItem, list and flag its
\* return value, outcome whether it returned or threw.
NoCall ==
  [op |-> "none", article |-> NoArticle, url |-> "none", pc |-> "idle",
   pending |-> <<>>, list |-> <<>>, flag |-> "none",
   readFailed |-> FALSE, writeFailed |-> FALSE, outcome |-> "none"]

VARIABLES
  favStore,         \* the value stored under FAVORITES_KEY (absent at first)
  favCall,          \* the call each caller has made last
  favLog            \* history: the last two completed calls, oldest first

favVars == <<favStore, favCall, favLog>>

FavInit ==
  /\ favStore = [present |-> FALSE, items |-> <<>>]
  /\ favCall = [p \in Callers |-> NoCall]
  /\ favLog = <<>>

\* ------------------------------------------------------- auth gate state
\* authService (src/unnamed/part_007), AppNavigator (part_004) and
\* LoginScreen (part_000).
AuthState == [isAuthenticated : BOOLEAN, biometricsEnabled : BOOLEAN]

\* part_007 line 147: the default state getAuthState returns, and the state
\* logout writes (line 164).
LoggedOut == [isAuthenticated |-> FALSE, biometricsEnabled |-> FALSE]

\* One run of a handler that awaits the auth service: pc is the promise it
\* awaits, pending the state its setItem writes, pre the value stored when
\* it started; the other fields record what happened in it.
NoAuthCall ==
  [handler |-> "none", pc |-> "idle", pending |-> LoggedOut,
   pre |-> [present |-> FALSE, state |-> LoggedOut],
   challenge |-> "none", success |-> "none", ret |-> LoggedOut,
   readFailed |-> FALSE, writeFailed |-> FALSE, outcome |-> "none",
   loginSuccess |-> FALSE, flagBefore |-> FALSE]

VARIABLES
  authStore,              \* the value stored under AUTH_KEY (absent at first)
  isAuthenticated,        \* AppNavigator: useState(false)
  navLoading,             \* AppNavigator: loading, useState(true)
  routes,                 \* the screens mounted in the stack, bottom first
  loginLoading,           \* LoginScreen: loading, useState(false)
  biometricsAvailable,    \* LoginScreen: useState(false)
  checkBiometricsPending, \* LoginScreen: checkBiometrics() has not resolved
  authCall                \* the handler run in progress or completed last

authVars == <<authStore, isAuthenticated, navLoading, routes, loginLoading,
              biometricsAvailable, checkBiometricsPending, authCall>>

AuthInit ==
  /\ authStore = [present |-> FALSE, state |-> LoggedOut]
  /\ isAuthenticated = FALSE
  /\ navLoading = TRUE
  /\ routes = <<>>
  /\ loginLoading = FALSE
  /\ biometricsAvailable = FALSE
  /\ checkBiometricsPending = FALSE
  /\ authCall = NoAuthCall

\* ----------------------------------------------------- news gateway state
\* newsService (src/src/services/newsService.ts, lines 56-150).
\* Argument values of the gateway functions; "undefined" is an argument the
\* caller left out.
GatewayPages == {1, 2}
GatewayCategories == CATEGORIES \cup {"undefined"}
GatewayDates == {"undefined", "2024-01-01"}
GatewaySorts == SORT_OPTIONS \cup {"undefined"}
NewsFilters ==
  [fromDate : GatewayDates, toDate : GatewayDates, sortBy : GatewaySorts]

\* One call of a gateway function: pc is "pending" while axios.get is
\* awaited, "returned" or "threw" after it; request is what was handed to
\* axios.get, result the value returned or the error thrown.
NoGatewayCall ==
  [pc |-> "idle", fn |-> "none", args |-> <<>>, request |-> <<>>,
   result |-> <<>>]

VARIABLES
  gateway           \* the gateway call made last

gatewayVars == <<gateway>>

GatewayInit == gateway = NoGatewayCall

\* ------------------------------------------------ biometric probe state
\* checkBiometricsAvailability (part_007 lines 46-76) and the LoginScreen
\* state it feeds (part_000 lines 22-33).
\* What hasHardwareAsync and isEnrolledAsync settle with.
ProbeResults == {"true", "false", "throws"}
AuthenticationTypes == {"FACIAL_RECOGNITION", "FINGERPRINT"}
\* What supportedAuthenticationTypesAsync settles with.
TypesResults ==
  [threw : {FALSE}, types : SUBSET AuthenticationTypes]
    \cup {[threw |-> TRUE, types |-> {}]}

\* part_000 line 23: biometryType is '' until checkBiometrics sets it; the
\* other fields record what the platform calls of that check settled with.
NoBiometrics ==
  [hasHardware |-> "none", isEnrolled |-> "none",
   types |-> [threw |-> FALSE, types |-> {}], biometryType |-> ""]

VARIABLES
  biometrics        \* LoginScreen: biometryType, and history of the check

biometricsVars == <<biometrics>>

BiometricsInit == biometrics = NoBiometrics

\* -------------------------------------------------- list session history
\* History of the list screen within one session of its page counter (from
\* one reset of the counter to 1 to the next).
VARIABLES
  submittedQuery,   \* history: the query of the last search submission
  listPages         \* history: the pages whose responses were applied to the
                    \* list since the page counter was last reset, in order

sessionVars == <<submittedQuery, listPages>>

SessionInit ==
  /\ submittedQuery = ""
  /\ listPages = <<>>

\* ---------------------------------------------- favorites overlap history
VARIABLES
  favTouched        \* history: per caller, the urls whose stored entries the
                    \* other callers' writes changed since the caller's call
                    \* read the store

overlapVars == <<favTouched>>

OverlapInit == favTouched = [p \in Callers |-> {}]

\* ---------------------------------------------------- filter modal state
\* FilterModal (src/src/components/FilterModal.tsx) and the state of the
\* list screen that shows it (NewsListScreen.tsx lines 36, 172, 200-205).
VARIABLES
  filterModalVisible,  \* NewsListScreen: useState(false)
  modalFilters,        \* FilterModal: filters, useState(currentFilters)
  modalEvent           \* history: what the last step did in the modal

modalVars == <<filterModalVisible, modalFilters, modalEvent>>

ModalInit ==
  /\ filterModalVisible = FALSE
  /\ modalFilters = defaultFilters
  /\ modalEvent = "none"

\* The steps of one component leave the state of the others alone.
ListOnly ==
  UNCHANGED <<favVars, authVars, gatewayVars, biometricsVars, sessionVars, overlapVars,
              modalVars>>
FavOnly ==
  UNCHANGED <<vars, authVars, gatewayVars, biometricsVars, sessionVars, overlapVars,
              modalVars>>
AuthOnly ==
  UNCHANGED <<vars, favVars, gatewayVars, biometricsVars, sessionVars, overlapVars,
              modalVars>>
LoginOnly ==
  UNCHANGED <<vars, favVars, gatewayVars, sessionVars, overlapVars,
              modalVars>>
SessionOnly ==
  UNCHANGED <<favVars, authVars, gatewayVars, biometricsVars, overlapVars,
              modalVars>>
OverlapOnly ==
  UNCHANGED <<vars, authVars, gatewayVars, biometricsVars, sessionVars,
              modalVars>>
ModalOnly ==
  UNCHANGED <<favVars, authVars, gatewayVars, biometricsVars, sessionVars,
              overlapVars>>
GatewayOnly ==
  UNCHANGED <<vars, favVars, authVars, biometricsVars, sessionVars, overlapVars,
              modalVars>>

\* ---------------------------------------------------------------- actions
Init ==
  /\ mounted = FALSE
  /\ articles = <<>>
  /\ articlesDefined = TRUE
  /\ loading = TRUE
  /\ refreshing = FALSE
  /\ error = "null"
  /\ searchQuery = ""
  /\ page = 1
  /\ filters = defaultFilters
  /\ inflight = EmptyBag
  /\ crashed = FALSE
  /\ calls = 0
  /\ lastEvent = "init"
  /\ lastReq = NoReq
  /\ lastResp = <<>>
  /\ lastErr = NoError
  /\ failedReq = NoReq
  /\ filterPending = FALSE
  /\ newestReq = NoReq
  /\ staleApplied = FALSE
  /\ FavInit
  /\ AuthInit
  /\ GatewayInit
  /\ BiometricsInit
  /\ SessionInit
  /\ OverlapInit
  /\ ModalInit

\* Lines 72-82: the part of loadNews(pageNum, query) that runs before the
\* await, with f the filters of the render the call is made from:
\* setError(null) and the gateway call.
loadNews(pageNum, query, f) ==
  /\ calls < MaxCalls
  /\ BagCardinality(inflight) < MaxInFlight
  /\ calls' = calls + 1
  /\ error' = "null"
  /\ inflight' = Issue(LoadNewsCall(pageNum, query, f))
  /\ lastReq' = LoadNewsCall(pageNum, query, f)
  /\ lastResp' = <<>>
  /\ lastErr' = NoError
  /\ failedReq' = NoReq
  /\ newestReq' = LoadNewsCall(pageNum, query, f)
  /\ staleApplied' = FALSE

\* Lines 107-115: both effects run on mount: loadNews() and then
\* setLoading(true); setPage(1); loadNews(1, searchQuery).
Mount ==
  /\ ~mounted
  /\ mounted' = TRUE
  /\ calls + 2 <= MaxCalls
  /\ BagCardinality(inflight) + 2 <= MaxInFlight
  /\ calls' = calls + 2
  /\ error' = "null"
  /\ loading' = TRUE
  /\ page' = 1
  /\ inflight' = (inflight (+) SetToBag({LoadNewsCall(1, "", filters)}))
                   (+) SetToBag({LoadNewsCall(1, searchQuery, filters)})
  /\ lastEvent' = "mount"
  /\ lastReq' = LoadNewsCall(1, searchQuery, filters)
  /\ lastResp' = <<>>
  /\ lastErr' = NoError
  /\ failedReq' = NoReq
  /\ newestReq' = LoadNewsCall(1, searchQuery, filters)
  /\ staleApplied' = FALSE
  /\ UNCHANGED <<articles, articlesDefined, refreshing, searchQuery, filters,
                 crashed, filterPending>>

\* Line 165: onChangeText={setSearchQuery}.
setSearchQuery(text) ==
  /\ ListShown
  /\ text # searchQuery
  /\ searchQuery' = text
  /\ lastEvent' = "type"
  /\ lastReq' = NoReq
  /\ newestReq' = newestReq
  /\ staleApplied' = FALSE
  /\ lastResp' = <<>>
  /\ lastErr' = NoError
  /\ UNCHANGED <<mounted, articles, articlesDefined, loading, refreshing, error,
                 page, filters, inflight, crashed, calls, failedReq, filterPending>>

\* Faulty variant of handleSearch: it also empties the list, setArticles([]).
handleSearchClears ==
  /\ ListShown
  /\ loading' = TRUE
  /\ page' = 1
  /\ articles' = <<>>
  /\ articlesDefined' = TRUE
  /\ loadNews(1, searchQuery, filters)
  /\ crashed' = FALSE
  /\ lastEvent' = "search"
  /\ UNCHANGED <<mounted, refreshing, searchQuery, filters, filterPending>>

\* Lines 117-121.
handleSearch ==
  /\ ListShown
  /\ loading' = TRUE
  /\ page' = 1
  /\ loadNews(1, searchQuery, filters)
  /\ crashed' = RenderThrows(articlesDefined, TRUE, "null")
  /\ lastEvent' = "search"
  /\ UNCHANGED <<mounted, articles, articlesDefined, refreshing, searchQuery,
                 filters, filterPending>>

\* Lines 123-127.
handleRefresh ==
  /\ ListShown
  /\ refreshing' = TRUE
  /\ page' = 1
  /\ loadNews(1, searchQuery, filters)
  /\ crashed' = RenderThrows(articlesDefined, loading, "null")
  /\ lastEvent' = "refresh"
  /\ UNCHANGED <<mounted, articles, articlesDefined, loading, searchQuery,
                 filters, filterPending>>

\* Lines 129-131 and the effect of lines 111-115 that the new filters
\* object triggers: loadNews runs in the render that has the new filters.
handleApplyFilters(newFilters) ==
  /\ ListShown
  /\ filters' = newFilters
  /\ loading' = TRUE
  /\ page' = 1
  /\ loadNews(1, searchQuery, newFilters)
  /\ crashed' = RenderThrows(articlesDefined, TRUE, "null")
  /\ lastEvent' = "filter"
  /\ filterPending' = TRUE
  /\ UNCHANGED <<mounted, articles, articlesDefined, refreshing, searchQuery>>

\* Lines 141-145 (FlatList onEndReached, line 191).
handleLoadMore ==
  /\ ListShown
  /\ page' = page + 1
  /\ loadNews(page + 1, searchQuery, filters)
  /\ crashed' = RenderThrows(articlesDefined, loading, "null")
  /\ lastEvent' = "loadMore"
  /\ UNCHANGED <<mounted, articles, articlesDefined, loading, refreshing,
                 searchQuery, filters, filterPending>>

\* Line 156: onRetry={() => loadNews()}, pressed in the error view.
onRetry ==
  /\ Rendered.screen = "ErrorView"
  /\ Rendered.retry
  /\ loadNews(1, "", filters)
  /\ crashed' = RenderThrows(articlesDefined, loading, "null")
  /\ lastEvent' = "retry"
  /\ UNCHANGED <<mounted, articles, articlesDefined, loading, refreshing,
                 searchQuery, page, filters, filterPending>>

\* Faulty variant of ResolveSuccess: a staleness guard drops the response to
\* any call but the most recent one.
ResolveSuccessGuarded(r, resp) ==
  /\ mounted /\ ~crashed
  /\ r \in InFlightSet
  /\ inflight' = Settle(r)
  /\ IF r # newestReq
     THEN /\ UNCHANGED <<articles, articlesDefined>>
          /\ crashed' = RenderThrows(articlesDefined, FALSE, error)
     ELSE IF r.pageNum = 1
     THEN /\ articles' = resp
          /\ articlesDefined' = TRUE
          /\ crashed' = RenderThrows(TRUE, FALSE, error)
     ELSE /\ articles' = IF articlesDefined THEN articles \o resp ELSE articles
          /\ articlesDefined' = articlesDefined
          /\ crashed' = (~articlesDefined \/ RenderThrows(articlesDefined, FALSE, error))
  /\ loading' = FALSE
  /\ refreshing' = FALSE
  /\ lastEvent' = "success"
  /\ lastReq' = NoReq
  /\ newestReq' = NewestAfter(r)
  /\ staleApplied' = (r # newestReq)
  /\ lastResp' = resp
  /\ lastErr' = NoError
  /\ filterPending' = FALSE
  /\ UNCHANGED <<mounted, error, searchQuery, page, filters, calls, failedReq>>

\* Lines 84-88 and 101-104: the gateway promise of call r resolves with a
\* body whose articles array is resp.  The updater of line 87 spreads prev,
\* which throws when prev is undefined.
ResolveSuccess(r, resp) ==
  /\ mounted /\ ~crashed
  /\ r \in InFlightSet
  /\ inflight' = Settle(r)
  /\ IF r.pageNum = 1
     THEN /\ articles' = resp
          /\ articlesDefined' = TRUE
          /\ crashed' = RenderThrows(TRUE, FALSE, error)
     ELSE /\ articles' = IF articlesDefined THEN articles \o resp ELSE articles
          /\ articlesDefined' = articlesDefined
          /\ crashed' = (~articlesDefined \/ RenderThrows(articlesDefined, FALSE, error))
  /\ loading' = FALSE
  /\ refreshing' = FALSE
  /\ lastEvent' = "success"
  /\ lastReq' = NoReq
  /\ newestReq' = NewestAfter(r)
  /\ staleApplied' = (r # newestReq)
  /\ lastResp' = resp
  /\ lastErr' = NoError
  /\ filterPending' = FALSE
  /\ UNCHANGED <<mounted, error, searchQuery, page, filters, calls, failedReq>>

\* Lines 84-88 and 101-104 when the 2xx body has no articles array:
\* response.articles is undefined.  Page 1 stores undefined; the updater of
\* line 87 spreads undefined, which throws while React renders.
ResolveMalformed(r) ==
  /\ mounted /\ ~crashed
  /\ r \in InFlightSet
  /\ inflight' = Settle(r)
  /\ IF r.pageNum = 1
     THEN /\ articles' = <<>>
          /\ articlesDefined' = FALSE
          /\ crashed' = RenderThrows(FALSE, FALSE, error)
     ELSE /\ UNCHANGED <<articles, articlesDefined>>
          /\ crashed' = TRUE
  /\ loading' = FALSE
  /\ refreshing' = FALSE
  /\ lastEvent' = "malformed"
  /\ lastReq' = NoReq
  /\ newestReq' = NewestAfter(r)
  /\ staleApplied' = FALSE
  /\ lastResp' = <<>>
  /\ lastErr' = NoError
  /\ UNCHANGED <<mounted, error, searchQuery, page, filters, calls, failedReq,
                 filterPending>>

\* Faulty variant of ResolveFailure: the catch block makes the failed call
\* again.
ResolveFailureRetries(r, err) ==
  /\ mounted /\ ~crashed
  /\ r \in InFlightSet
  /\ calls < MaxCalls
  /\ calls' = calls + 1
  /\ inflight' = inflight
  /\ error' = Classify(err)
  /\ loading' = FALSE
  /\ refreshing' = FALSE
  /\ crashed' = RenderThrows(articlesDefined, FALSE, Classify(err))
  /\ lastEvent' = "failure"
  /\ lastReq' = NoReq
  /\ newestReq' = newestReq
  /\ staleApplied' = FALSE
  /\ lastResp' = <<>>
  /\ lastErr' = err
  /\ failedReq' = r
  /\ UNCHANGED <<mounted, articles, articlesDefined, searchQuery, page, filters,
                 filterPending>>

\* Faulty variant of ResolveFailure: the catch block blanks the list.
ResolveFailureBlanks(r, err) ==
  /\ mounted /\ ~crashed
  /\ r \in InFlightSet
  /\ inflight' = Settle(r)
  /\ error' = Classify(err)
  /\ loading' = FALSE
  /\ refreshing' = FALSE
  /\ articles' = <<>>
  /\ articlesDefined' = TRUE
  /\ crashed' = FALSE
  /\ lastEvent' = "failure"
  /\ lastReq' = NoReq
  /\ newestReq' = NewestAfter(r)
  /\ staleApplied' = FALSE
  /\ lastResp' = <<>>
  /\ lastErr' = err
  /\ failedReq' = r
  /\ UNCHANGED <<mounted, searchQuery, page, filters, calls, filterPending>>

\* Lines 89-104: the gateway promise of call r rejects with err.
ResolveFailure(r, err) ==
  /\ mounted /\ ~crashed
  /\ r \in InFlightSet
  /\ inflight' = Settle(r)
  /\ error' = Classify(err)
  /\ loading' = FALSE
  /\ refreshing' = FALSE
  /\ crashed' = RenderThrows(articlesDefined, FALSE, Classify(err))
  /\ lastEvent' = "failure"
  /\ lastReq' = NoReq
  /\ newestReq' = NewestAfter(r)
  /\ staleApplied' = FALSE
  /\ lastResp' = <<>>
  /\ lastErr' = err
  /\ failedReq' = r
  /\ UNCHANGED <<mounted, articles, articlesDefined, searchQuery, page, filters,
                 calls, filterPending>>

\* A promise that settles after the tree was unmounted: the state setters
\* of an unmounted component do nothing.
SettleUnmounted(r) ==
  /\ crashed
  /\ r \in InFlightSet
  /\ inflight' = Settle(r)
  /\ lastEvent' = "dropped"
  /\ lastReq' = NoReq
  /\ newestReq' = NewestAfter(r)
  /\ staleApplied' = FALSE
  /\ lastResp' = <<>>
  /\ lastErr' = NoError
  /\ UNCHANGED <<mounted, articles, articlesDefined, loading, refreshing, error,
                 searchQuery, page, filters, crashed, calls, failedReq, filterPending>>

Next ==
  \/ Mount /\ ListOnly
  \/ \E text \in Queries : setSearchQuery(text) /\ ListOnly
  \/ handleSearch /\ ListOnly
  \/ handleRefresh /\ ListOnly
  \/ \E newFilters \in FilterOptions : handleApplyFilters(newFilters) /\ ListOnly
  \/ handleLoadMore /\ ListOnly
  \/ onRetry /\ ListOnly
  \/ \E r \in InFlightSet, resp \in Pages : ResolveSuccess(r, resp) /\ ListOnly
  \/ \E r \in InFlightSet : ResolveMalformed(r) /\ ListOnly
  \/ \E r \in InFlightSet, err \in AxiosErrors : ResolveFailure(r, err) /\ ListOnly
  \/ \E r \in InFlightSet : SettleUnmounted(r) /\ ListOnly

Spec == Init /\ [][Next]_vars

\* ========================================== list screen, session history
\* The list after a successful response to call r is applied: a response to
\* a page-1 call replaces it, any other is appended (lines 84-88).
PagesAfter(r) == IF r.pageNum = 1 THEN <<1>> ELSE Append(listPages, r.pageNum)

\* The errors a gateway call fails with in the session runs.
SessionErrors == {err \in AxiosErrors : err.cause = "timeout"}

NextSession ==
  \/ Mount /\ UNCHANGED sessionVars /\ SessionOnly
  \/ \E text \in Queries :
       setSearchQuery(text) /\ UNCHANGED sessionVars /\ SessionOnly
  \/ handleSearch /\ submittedQuery' = searchQuery /\ listPages' = <<>>
       /\ SessionOnly
  \/ handleRefresh /\ listPages' = <<>> /\ UNCHANGED submittedQuery
       /\ SessionOnly
  \/ \E newFilters \in FilterOptions :
       handleApplyFilters(newFilters) /\ listPages' = <<>>
         /\ UNCHANGED submittedQuery /\ SessionOnly
  \/ handleLoadMore /\ UNCHANGED sessionVars /\ SessionOnly
  \/ onRetry /\ UNCHANGED sessionVars /\ SessionOnly
  \/ \E r \in InFlightSet, resp \in Pages :
       ResolveSuccess(r, resp) /\ listPages' = PagesAfter(r)
         /\ UNCHANGED submittedQuery /\ SessionOnly
  \/ \E r \in InFlightSet, err \in SessionErrors :
       ResolveFailure(r, err) /\ UNCHANGED sessionVars /\ SessionOnly

\* The list screen with well-formed responses, and the history of its
\* sessions.
SpecSession == Init /\ [][NextSession]_<<vars, sessionVars>>

\* ================================================ list screen, liveness
\* Some outstanding call settles.
SettleSome ==
  \E r \in InFlightSet :
    \/ \E resp \in Pages : ResolveSuccess(r, resp) /\ ListOnly
    \/ ResolveMalformed(r) /\ ListOnly
    \/ \E err \in SessionErrors : ResolveFailure(r, err) /\ ListOnly
    \/ SettleUnmounted(r) /\ ListOnly

NextLive ==
  \/ Mount /\ ListOnly
  \/ \E text \in Queries : setSearchQuery(text) /\ ListOnly
  \/ handleSearch /\ ListOnly
  \/ handleRefresh /\ ListOnly
  \/ \E newFilters \in FilterOptions : handleApplyFilters(newFilters) /\ ListOnly
  \/ handleLoadMore /\ ListOnly
  \/ onRetry /\ ListOnly
  \/ SettleSome

\* The list screen when React runs the mount effects and every gateway call
\* that was made settles.
SpecLive ==
  Init /\ [][NextLive]_vars /\ WF_vars(Mount /\ ListOnly) /\ WF_vars(SettleSome)

\* ================================================ list screen, filter modal
\* The FilterModal is an element of the list view (lines 200-205): it keeps
\* its state while the list view stays rendered, and a list view rendered
\* anew mounts it with useState(currentFilters) (FilterModal.tsx line 55).
ModalStateKept ==
  modalFilters' = IF ListShown /\ ListShown' THEN modalFilters ELSE filters'

\* A step of the list screen outside the modal.
OutsideModal ==
  /\ ModalStateKept
  /\ modalEvent' = "none"
  /\ UNCHANGED filterModalVisible

\* A step inside the modal that leaves the list screen's pipeline alone.
InsideModal == UNCHANGED vars

\* NewsListScreen.tsx line 172: the filter button is pressed.
openModal ==
  /\ ListShown /\ ~filterModalVisible
  /\ filterModalVisible' = TRUE
  /\ modalEvent' = "open"
  /\ UNCHANGED modalFilters
  /\ InsideModal

\* FilterModal.tsx lines 99, 125-130, 156-161: an option is pressed.
selectOption(field, id) ==
  /\ ListShown /\ filterModalVisible
  /\ modalFilters' = [modalFilters EXCEPT ![field] = id]
  /\ modalEvent' = "select"
  /\ UNCHANGED filterModalVisible
  /\ InsideModal

\* FilterModal.tsx lines 62-69.
handleReset ==
  /\ ListShown /\ filterModalVisible
  /\ modalFilters' = defaultFilters
  /\ modalEvent' = "reset"
  /\ UNCHANGED filterModalVisible
  /\ InsideModal

\* FilterModal.tsx lines 76 and 82, NewsListScreen.tsx line 202: onClose.
onClose ==
  /\ ListShown /\ filterModalVisible
  /\ filterModalVisible' = FALSE
  /\ modalEvent' = "close"
  /\ UNCHANGED modalFilters
  /\ InsideModal

\* FilterModal.tsx lines 57-60: onApply(filters); onClose().
handleApply ==
  /\ ListShown /\ filterModalVisible
  /\ handleApplyFilters(modalFilters)
  /\ filterModalVisible' = FALSE
  /\ modalEvent' = "apply"
  /\ ModalStateKept

NextModal ==
  \/ Mount /\ OutsideModal /\ ModalOnly
  \/ ~filterModalVisible /\ handleRefresh /\ OutsideModal /\ ModalOnly
  \/ ~filterModalVisible /\ handleLoadMore /\ OutsideModal /\ ModalOnly
  \/ onRetry /\ OutsideModal /\ ModalOnly
  \/ \E r \in InFlightSet, resp \in Pages :
       ResolveSuccess(r, resp) /\ OutsideModal /\ ModalOnly
  \/ \E r \in InFlightSet, err \in SessionErrors :
       ResolveFailure(r, err) /\ OutsideModal /\ ModalOnly
  \/ openModal /\ ModalOnly
  \/ \E id \in CATEGORIES : selectOption("category", id) /\ ModalOnly
  \/ \E id \in DATE_RANGES : selectOption("dateRange", id) /\ ModalOnly
  \/ \E id \in SORT_OPTIONS : selectOption("sortBy", id) /\ ModalOnly
  \/ handleReset /\ ModalOnly
  \/ onClose /\ ModalOnly
  \/ handleApply /\ ModalOnly

\* The list screen with its filter modal.
SpecModal == Init /\ [][NextModal]_<<vars, modalVars>>

\* ========================================================== news gateway
\* Truthiness of a string argument: '' and a left-out argument are falsy.
Truthy(value) == value \notin {"", "undefined"}

\* Faulty variant of fetchTopHeadlinesParams: the category is sent only when
\* no query is given.
fetchTopHeadlinesParamsScoped(query, pageArg, category) ==
  [apiKey |-> "API_KEY", pageSize |-> "PAGE_SIZE", page |-> pageArg,
   language |-> "en"]
  @@ (IF Truthy(query) THEN [q |-> query] ELSE [country |-> "us"])
  @@ (IF ~Truthy(query) /\ Truthy(category) /\ category # "all"
      THEN [category |-> category] ELSE <<>>)

\* Lines 64-81: the params object fetchTopHeadlines builds.
fetchTopHeadlinesParams(query, pageArg, category) ==
  [apiKey |-> "API_KEY", pageSize |-> "PAGE_SIZE", page |-> pageArg,
   language |-> "en"]
  @@ (IF Truthy(query) THEN [q |-> query] ELSE [country |-> "us"])
  @@ (IF Truthy(category) /\ category # "all"
      THEN [category |-> category] ELSE <<>>)

\* Lines 126-142: the params object searchNews builds.
searchNewsParams(query, pageArg, f) ==
  [apiKey |-> "API_KEY", q |-> IF Truthy(query) THEN query ELSE "news",
   pageSize |-> "PAGE_SIZE", page |-> pageArg,
   sortBy |-> IF Truthy(f.sortBy) THEN f.sortBy ELSE "publishedAt"]
  @@ (IF Truthy(f.fromDate) THEN [from |-> f.fromDate] ELSE <<>>)
  @@ (IF Truthy(f.toDate) THEN [to |-> f.toDate] ELSE <<>>)

\* Lines 56-83: fetchTopHeadlines up to its await of axios.get.
fetchTopHeadlines(query, pageArg, category) ==
  /\ gateway.pc # "pending"
  /\ gateway' =
       [pc |-> "pending", fn |-> "fetchTopHeadlines",
        args |-> [query |-> query, page |-> pageArg, category |-> category],
        request |-> [endpoint |-> "/top-headlines",
                     params |-> fetchTopHeadlinesParams(query, pageArg, category)],
        result |-> <<>>]

\* Lines 119-144: searchNews up to its await of axios.get.
searchNews(query, pageArg, f) ==
  /\ gateway.pc # "pending"
  /\ gateway' =
       [pc |-> "pending", fn |-> "searchNews",
        args |-> [query |-> query, page |-> pageArg, filters |-> f],
        request |-> [endpoint |-> "/everything",
                     params |-> searchNewsParams(query, pageArg, f)],
        result |-> <<>>]

\* Lines 84 and 145: axios.get resolved, the function returns response.data.
AxiosGetResolves(data) ==
  /\ gateway.pc = "pending"
  /\ gateway' = [gateway EXCEPT !.pc = "returned", !.result = data]

\* Lines 85-88 and 146-149: axios.get rejected, the catch logs the error and
\* throws it again.
AxiosGetRejects(err) ==
  /\ gateway.pc = "pending"
  /\ gateway' = [gateway EXCEPT !.pc = "threw", !.result = err]

NextGateway ==
  \/ \E query \in Queries, pageArg \in GatewayPages,
        category \in GatewayCategories :
       fetchTopHeadlines(query, pageArg, category) /\ GatewayOnly
  \/ \E query \in Queries, pageArg \in GatewayPages, f \in NewsFilters :
       searchNews(query, pageArg, f) /\ GatewayOnly
  \/ \E data \in Pages : AxiosGetResolves(data) /\ GatewayOnly
  \/ \E err \in AxiosErrors : AxiosGetRejects(err) /\ GatewayOnly

SpecGateway == Init /\ [][NextGateway]_gatewayVars

\* ======================================================= favorites store
\* Faulty variant of Some: an entry matches only if it also has title 't1'.
SomeArticle(favorites, url) ==
  \E i \in 1..Len(favorites) : favorites[i] = [url |-> url, title |-> "t1"]

\* favorites.some((fav) => fav.url === url)
Some(favorites, url) == \E i \in 1..Len(favorites) : favorites[i].url = url

\* Faulty variant of Filter: it removes nothing.
FilterNothing(favorites, url) == SelectSeq(favorites, LAMBDA fav : TRUE)

\* favorites.filter((fav) => fav.url !== url)
Filter(favorites, url) == SelectSeq(favorites, LAMBDA fav : fav.url # url)

\* JSON.stringify(favorites): the string setItem stores.
Stringify(favorites) == [present |-> TRUE, items |-> favorites]

\* Line 194: data ? JSON.parse(data) : []; getItem gives null for an absent key.
Parse(data) == IF data.present THEN data.items ELSE <<>>

\* The start of a call by caller p, up to the await of AsyncStorage.getItem
\* inside getFavorites (line 193).
Call(p, op, article, url) ==
  /\ favCall[p].pc \in {"idle", "done"}
  /\ favCall' = [favCall EXCEPT ![p] =
       [NoCall EXCEPT !.op = op, !.article = article, !.url = url, !.pc = "getItem"]]
  /\ UNCHANGED favStore

\* Lines 191-199.
getFavorites(p) == Call(p, "getFavorites", NoArticle, "none")

\* Lines 202-204.
addToFavorites(p, article) == Call(p, "addToFavorites", article, article.url)

\* Lines 217-219.
removeFromFavorites(p, url) == Call(p, "removeFromFavorites", NoArticle, url)

\* Lines 228-230.
isFavorite(p, url) == Call(p, "isFavorite", NoArticle, url)

\* Faulty variant of AfterGetFavorites: addToFavorites pushes the article
\* without looking for its url.
AfterGetFavoritesNoCheck(c, favorites) ==
  IF c.op = "getFavorites"
  THEN [c EXCEPT !.pc = "done", !.list = favorites, !.outcome = "returned"]
  ELSE IF c.op = "isFavorite"
  THEN [c EXCEPT !.pc = "done", !.outcome = "returned",
                 !.flag = IF Some(favorites, c.url) THEN "true" ELSE "false"]
  ELSE IF c.op = "addToFavorites"
  THEN [c EXCEPT !.pc = "setItem", !.pending = Append(favorites, c.article)]
  ELSE [c EXCEPT !.pc = "setItem", !.pending = Filter(favorites, c.url)]

\* What call c does once its getFavorites() has returned favorites, up to its
\* next await or its return: lines 194 and 198 (getFavorites), 205-209
\* (addToFavorites), 220-221 (removeFromFavorites), 231 (isFavorite).
AfterGetFavorites(c, favorites) ==
  IF c.op = "getFavorites"
  THEN [c EXCEPT !.pc = "done", !.list = favorites, !.outcome = "returned"]
  ELSE IF c.op = "isFavorite"
  THEN [c EXCEPT !.pc = "done", !.outcome = "returned",
                 !.flag = IF Some(favorites, c.url) THEN "true" ELSE "false"]
  ELSE IF c.op = "addToFavorites"
  THEN IF Some(favorites, c.article.url)
       THEN [c EXCEPT !.pc = "done", !.outcome = "returned"]
       ELSE [c EXCEPT !.pc = "setItem", !.pending = Append(favorites, c.article)]
  ELSE [c EXCEPT !.pc = "setItem", !.pending = Filter(favorites, c.url)]

\* Lines 193-194: the getItem promise of caller p's call resolves.
GetItemResolves(p) ==
  /\ favCall[p].pc = "getItem"
  /\ favCall' = [favCall EXCEPT ![p] = AfterGetFavorites(@, Parse(favStore))]
  /\ UNCHANGED favStore

\* Lines 195-198: the getItem promise rejects; the catch of getFavorites
\* returns [] to its caller.
GetItemRejects(p) ==
  /\ favCall[p].pc = "getItem"
  /\ favCall' = [favCall EXCEPT ![p] =
       AfterGetFavorites([@ EXCEPT !.readFailed = TRUE], <<>>)]
  /\ UNCHANGED favStore

\* Faulty variant of SetItemResolves: the value is not stored.
SetItemResolvesDropped(p) ==
  /\ favCall[p].pc = "setItem"
  /\ UNCHANGED favStore
  /\ favCall' = [favCall EXCEPT ![p] = [@ EXCEPT !.pc = "done", !.outcome = "returned"]]

\* Lines 208 and 221: the setItem promise resolves; the value is stored.
SetItemResolves(p) ==
  /\ favCall[p].pc = "setItem"
  /\ favStore' = Stringify(favCall[p].pending)
  /\ favCall' = [favCall EXCEPT ![p] = [@ EXCEPT !.pc = "done", !.outcome = "returned"]]

\* Faulty variant of SetItemRejects: the rejection leaves the function.
SetItemRejectsUncaught(p) ==
  /\ favCall[p].pc = "setItem"
  /\ favCall' = [favCall EXCEPT ![p] =
       [@ EXCEPT !.pc = "done", !.writeFailed = TRUE, !.outcome = "threw"]]
  /\ UNCHANGED favStore

\* Lines 210-213 and 222-224: the setItem promise rejects; the catch of
\* addToFavorites / removeFromFavorites logs it and the function returns.
SetItemRejects(p) ==
  /\ favCall[p].pc = "setItem"
  /\ favCall' = [favCall EXCEPT ![p] =
       [@ EXCEPT !.pc = "done", !.writeFailed = TRUE, !.outcome = "returned"]]
  /\ UNCHANGED favStore

\* History: the entry of caller p's call in favLog.  pre and post are the
\* favorites stored before and after the step that completes the call.
LogEntry(p) ==
  [op |-> favCall[p].op, article |-> favCall[p].article, url |-> favCall[p].url,
   pre |-> Parse(favStore), post |-> Parse(favStore'),
   flag |-> favCall'[p].flag, list |-> favCall'[p].list,
   failed |-> favCall'[p].readFailed \/ favCall'[p].writeFailed]

Logged(p) ==
  favLog' = IF favCall'[p].pc = "done"
            THEN IF favLog = <<>> THEN <<LogEntry(p)>>
                 ELSE <<favLog[Len(favLog)], LogEntry(p)>>
            ELSE favLog

\* One caller: every call completes before the next one starts.
SeqCaller == "c1"

NextFavSeq ==
  \/ getFavorites(SeqCaller) /\ Logged(SeqCaller) /\ FavOnly
  \/ \E article \in Article :
       addToFavorites(SeqCaller, article) /\ Logged(SeqCaller) /\ FavOnly
  \/ \E url \in Urls :
       removeFromFavorites(SeqCaller, url) /\ Logged(SeqCaller) /\ FavOnly
  \/ \E url \in Urls : isFavorite(SeqCaller, url) /\ Logged(SeqCaller) /\ FavOnly
  \/ GetItemResolves(SeqCaller) /\ Logged(SeqCaller) /\ FavOnly
  \/ GetItemRejects(SeqCaller) /\ Logged(SeqCaller) /\ FavOnly
  \/ SetItemResolves(SeqCaller) /\ Logged(SeqCaller) /\ FavOnly
  \/ SetItemRejects(SeqCaller) /\ Logged(SeqCaller) /\ FavOnly

\* The favorites store used by one caller at a time.
SpecFavSeq == Init /\ [][NextFavSeq]_favVars

NextFav ==
  \/ \E p \in Callers : getFavorites(p) /\ UNCHANGED favLog /\ FavOnly
  \/ \E p \in Callers, article \in Article :
       addToFavorites(p, article) /\ UNCHANGED favLog /\ FavOnly
  \/ \E p \in Callers, url \in Urls :
       removeFromFavorites(p, url) /\ UNCHANGED favLog /\ FavOnly
  \/ \E p \in Callers, url \in Urls : isFavorite(p, url) /\ UNCHANGED favLog /\ FavOnly
  \/ \E p \in Callers : GetItemResolves(p) /\ UNCHANGED favLog /\ FavOnly
  \/ \E p \in Callers : GetItemRejects(p) /\ UNCHANGED favLog /\ FavOnly
  \/ \E p \in Callers : SetItemResolves(p) /\ UNCHANGED favLog /\ FavOnly
  \/ \E p \in Callers : SetItemRejects(p) /\ UNCHANGED favLog /\ FavOnly

\* The favorites store with overlapping calls.
SpecFav == Init /\ [][NextFav]_favVars


\* ============================================================= auth gate
\* JSON.stringify(state): the string setItem stores under AUTH_KEY.
AuthStringify(state) == [present |-> TRUE, state |-> state]

\* part_007 lines 137-148: what getAuthState returns for the stored value
\* data, or when getItem rejected.
getAuthStateReturn(data, rejected) ==
  IF ~rejected /\ data.present THEN data.state ELSE LoggedOut

\* Faulty variant of authenticateWithBiometricsReturn: a cancelled prompt
\* counts as a success.
authenticateWithBiometricsLenient(challenge) ==
  IF challenge \in {"success", "cancelled"} THEN "true" ELSE "false"

\* part_007 lines 92-105: result.success, or false from the catch when
\* authenticateAsync throws.
authenticateWithBiometricsReturn(challenge) ==
  IF challenge = "success" THEN "true" ELSE "false"

\* Faulty variant of Registered: every screen is rendered whatever the flag.
RegisteredAlways(flag) == {"Login", "NewsList", "Favorites", "ArticleDetail"}

\* part_004 lines 74-122: the screens the navigator renders for a value of
\* isAuthenticated.
Registered(flag) ==
  IF ~flag THEN {"Login"} ELSE {"NewsList", "Favorites", "ArticleDetail"}

\* The stack after a render with flag: routes whose screen is still rendered
\* stay mounted; otherwise the stack is the first screen of the group.
RoutesFor(flag) ==
  IF routes # <<>> /\ \A i \in 1..Len(routes) : routes[i] \in Registered(flag)
  THEN routes
  ELSE IF "Login" \in Registered(flag) THEN <<"Login">> ELSE <<"NewsList">>

LoginMounted == ~navLoading /\ routes = <<"Login">>

AuthIdle == authCall.pc \in {"idle", "done"}

\* A LoginScreen that mounts runs checkBiometrics (part_000 lines 25-33) with
\* its state at the useState defaults; one that stays mounted keeps its state.
LoginScreenFor(newRoutes) ==
  IF newRoutes = <<"Login">> /\ routes # <<"Login">>
  THEN /\ checkBiometricsPending' = TRUE
       /\ biometricsAvailable' = FALSE
       /\ loginLoading' = FALSE
  ELSE IF newRoutes = <<"Login">>
  THEN UNCHANGED <<checkBiometricsPending, biometricsAvailable, loginLoading>>
  ELSE /\ checkBiometricsPending' = FALSE
       /\ biometricsAvailable' = FALSE
       /\ loginLoading' = FALSE

\* part_004 lines 28-34: the mount effect calls checkAuth, which awaits
\* getAuthState (getItem, part_007 line 139).
checkAuth ==
  /\ navLoading /\ authCall.pc = "idle"
  /\ authCall' = [NoAuthCall EXCEPT !.handler = "checkAuth", !.pc = "getItem",
                                    !.pre = authStore, !.flagBefore = isAuthenticated]
  /\ UNCHANGED <<authStore, isAuthenticated, navLoading, routes, loginLoading,
                 biometricsAvailable, checkBiometricsPending>>

\* part_007 lines 139-147 and part_004 lines 35-36: getAuthState returns and
\* checkAuth sets the flag and clears loading.
GetAuthItemSettles(rejected) ==
  /\ authCall.pc = "getItem"
  /\ LET ret == getAuthStateReturn(authStore, rejected) IN
       /\ isAuthenticated' = ret.isAuthenticated
       /\ routes' = IF ret.isAuthenticated THEN <<"NewsList">> ELSE <<"Login">>
       /\ LoginScreenFor(IF ret.isAuthenticated THEN <<"NewsList">> ELSE <<"Login">>)
       /\ authCall' = [authCall EXCEPT !.pc = "done", !.ret = ret,
                                       !.readFailed = rejected, !.outcome = "returned"]
  /\ navLoading' = FALSE
  /\ UNCHANGED authStore

GetAuthItemResolves == GetAuthItemSettles(FALSE)

\* part_007 lines 143-145: the catch of getAuthState.
GetAuthItemRejects == GetAuthItemSettles(TRUE)

\* part_000 lines 29-33: checkBiometricsAvailability resolves.
checkBiometricsResolves(available) ==
  /\ LoginMounted /\ checkBiometricsPending
  /\ checkBiometricsPending' = FALSE
  /\ biometricsAvailable' = available
  /\ UNCHANGED <<authStore, isAuthenticated, navLoading, routes, loginLoading, authCall>>

\* part_000 lines 35-38: the biometric button (rendered when loading is
\* false and biometricsAvailable is true, lines 92-104) is pressed.
handleBiometricLogin ==
  /\ LoginMounted /\ ~loginLoading /\ biometricsAvailable /\ AuthIdle
  /\ loginLoading' = TRUE
  /\ authCall' = [NoAuthCall EXCEPT !.handler = "handleBiometricLogin",
                                    !.pc = "challenge", !.pre = authStore,
                                    !.flagBefore = isAuthenticated]
  /\ UNCHANGED <<authStore, isAuthenticated, navLoading, routes,
                 biometricsAvailable, checkBiometricsPending>>

\* part_007 lines 92-105 and part_000 lines 38-53: the prompt settles with
\* challenge; on true the handler calls saveAuthState, otherwise it shows the
\* alert and its finally clears loading.
ChallengeSettles(challenge) ==
  /\ authCall.pc = "challenge"
  /\ LET success == authenticateWithBiometricsReturn(challenge) IN
       IF success = "true"
       THEN /\ authCall' = [authCall EXCEPT !.pc = "setItem", !.challenge = challenge,
                 !.success = success,
                 !.pending = [isAuthenticated |-> TRUE, biometricsEnabled |-> TRUE]]
            /\ UNCHANGED loginLoading
       ELSE /\ authCall' = [authCall EXCEPT !.pc = "done", !.challenge = challenge,
                 !.success = success, !.outcome = "returned"]
            /\ loginLoading' = FALSE
  /\ UNCHANGED <<authStore, isAuthenticated, navLoading, routes,
                 biometricsAvailable, checkBiometricsPending>>

ChallengeResolves(challenge) == ChallengeSettles(challenge)

\* part_007 lines 101-104: authenticateAsync throws.
ChallengeRejects == ChallengeSettles("threw")

\* part_000 lines 56-62: the plain login button is pressed.
handleSimpleLogin ==
  /\ LoginMounted /\ ~loginLoading /\ AuthIdle
  /\ loginLoading' = TRUE
  /\ authCall' = [NoAuthCall EXCEPT !.handler = "handleSimpleLogin", !.pc = "setItem",
                    !.pre = authStore, !.flagBefore = isAuthenticated,
                    !.pending = [isAuthenticated |-> TRUE, biometricsEnabled |-> FALSE]]
  /\ UNCHANGED <<authStore, isAuthenticated, navLoading, routes,
                 biometricsAvailable, checkBiometricsPending>>

\* part_004 lines 43-51: the logout button of the NewsList header is pressed
\* and the alert is confirmed; the handler awaits logout() (part_007 line 162).
handleLogout ==
  /\ ~navLoading /\ isAuthenticated /\ routes = <<"NewsList">> /\ AuthIdle
  /\ authCall' = [NoAuthCall EXCEPT !.handler = "handleLogout", !.pc = "setItem",
                    !.pre = authStore, !.flagBefore = isAuthenticated,
                    !.pending = LoggedOut]
  /\ UNCHANGED <<authStore, isAuthenticated, navLoading, routes, loginLoading,
                 biometricsAvailable, checkBiometricsPending>>

\* part_007 lines 117-123 and 160-169: the setItem promise of saveAuthState or
\* logout settles; a rejection is caught and logged there, so the function
\* returns either way.  Then the handler goes on: onLoginSuccess() and the
\* finally of the login handlers (part_000 lines 45, 52, 62, 66; part_004
\* line 82), setIsAuthenticated(false) of the logout handler (part_004 line 51).
SetAuthItemSettles(rejected) ==
  /\ authCall.pc = "setItem"
  /\ authStore' = IF rejected THEN authStore ELSE AuthStringify(authCall.pending)
  /\ LET flag == authCall.handler # "handleLogout" IN
       /\ isAuthenticated' = flag
       /\ routes' = RoutesFor(flag)
       /\ LoginScreenFor(RoutesFor(flag))
       /\ authCall' = [authCall EXCEPT !.pc = "done", !.writeFailed = rejected,
                                       !.outcome = "returned", !.loginSuccess = flag]
  /\ UNCHANGED navLoading

SetAuthItemResolves == SetAuthItemSettles(FALSE)

SetAuthItemRejects == SetAuthItemSettles(TRUE)

\* part_004 line 96, NewsListScreen.tsx line 148, part_001 line 68:
\* navigation.navigate to a screen the navigator renders.
navigate(route) ==
  /\ ~navLoading /\ route \in Registered(isAuthenticated)
  /\ \/ route = "Favorites" /\ routes = <<"NewsList">>
     \/ route = "ArticleDetail" /\ routes \in {<<"NewsList">>, <<"NewsList", "Favorites">>}
  /\ routes' = Append(routes, route)
  /\ UNCHANGED <<authStore, isAuthenticated, navLoading, loginLoading,
                 biometricsAvailable, checkBiometricsPending, authCall>>

\* The back button of the stack header.
goBack ==
  /\ ~navLoading /\ Len(routes) > 1
  /\ routes' = SubSeq(routes, 1, Len(routes) - 1)
  /\ UNCHANGED <<authStore, isAuthenticated, navLoading, loginLoading,
                 biometricsAvailable, checkBiometricsPending, authCall>>

\* The app is closed and started again: the components are constructed anew
\* (part_004 lines 25-26), the stored value stays.
Restart ==
  /\ ~navLoading /\ AuthIdle
  /\ isAuthenticated' = FALSE
  /\ navLoading' = TRUE
  /\ routes' = <<>>
  /\ loginLoading' = FALSE
  /\ biometricsAvailable' = FALSE
  /\ checkBiometricsPending' = FALSE
  /\ authCall' = NoAuthCall
  /\ UNCHANGED authStore

NextAuth ==
  \/ checkAuth /\ AuthOnly
  \/ GetAuthItemResolves /\ AuthOnly
  \/ GetAuthItemRejects /\ AuthOnly
  \/ \E available \in BOOLEAN : checkBiometricsResolves(available) /\ AuthOnly
  \/ handleBiometricLogin /\ AuthOnly
  \/ \E challenge \in {"success", "failed", "cancelled"} :
       ChallengeResolves(challenge) /\ AuthOnly
  \/ ChallengeRejects /\ AuthOnly
  \/ handleSimpleLogin /\ AuthOnly
  \/ handleLogout /\ AuthOnly
  \/ SetAuthItemResolves /\ AuthOnly
  \/ SetAuthItemRejects /\ AuthOnly
  \/ \E route \in {"Favorites", "ArticleDetail"} : navigate(route) /\ AuthOnly
  \/ goBack /\ AuthOnly
  \/ Restart /\ AuthOnly

\* The auth gate: navigator, login screen and auth service.
SpecAuth == Init /\ [][NextAuth]_authVars

\* The urls whose stored entries differ between the lists before and after.
ChangedUrls(before, after) ==
  {u \in Urls : SelectSeq(before, LAMBDA fav : fav.url = u)
                  # SelectSeq(after, LAMBDA fav : fav.url = u)}

\* Caller p's call starts or reads the store: nothing has changed since.
ReadBy(p) == favTouched' = [favTouched EXCEPT ![p] = {}]

\* Caller p's setItem settles: the other callers see what it changed.
WrittenBy(p) ==
  favTouched' = [q \in Callers |->
                   IF q = p THEN favTouched[q]
                   ELSE favTouched[q]
                          \cup ChangedUrls(Parse(favStore), Parse(favStore'))]

NextFavOverlap ==
  \/ \E p \in Callers : getFavorites(p) /\ ReadBy(p) /\ UNCHANGED favLog /\ OverlapOnly
  \/ \E p \in Callers, article \in Article :
       addToFavorites(p, article) /\ ReadBy(p) /\ UNCHANGED favLog /\ OverlapOnly
  \/ \E p \in Callers, url \in Urls :
       removeFromFavorites(p, url) /\ ReadBy(p) /\ UNCHANGED favLog /\ OverlapOnly
  \/ \E p \in Callers, url \in Urls :
       isFavorite(p, url) /\ ReadBy(p) /\ UNCHANGED favLog /\ OverlapOnly
  \/ \E p \in Callers :
       GetItemResolves(p) /\ ReadBy(p) /\ UNCHANGED favLog /\ OverlapOnly
  \/ \E p \in Callers :
       GetItemRejects(p) /\ ReadBy(p) /\ UNCHANGED favLog /\ OverlapOnly
  \/ \E p \in Callers :
       SetItemResolves(p) /\ WrittenBy(p) /\ UNCHANGED favLog /\ OverlapOnly
  \/ \E p \in Callers :
       SetItemRejects(p) /\ WrittenBy(p) /\ UNCHANGED favLog /\ OverlapOnly

\* The favorites store with two callers, and the history of what each
\* caller's call has missed.
SpecFavOverlap == Init /\ [][NextFavOverlap]_<<favVars, overlapVars>>

\* ============================================== login screen, biometrics
\* part_007 lines 50-75: the value checkBiometricsAvailability resolves with,
\* given what its platform calls settle with.  A platform call that throws
\* ends in the catch (lines 72-75).
checkBiometricsAvailabilityReturn(hasHardware, isEnrolled, types) ==
  IF hasHardware = "throws" \/ isEnrolled = "throws"
  THEN [available |-> FALSE, biometryType |-> "undefined"]
  ELSE IF hasHardware = "true" /\ isEnrolled = "true"
  THEN IF types.threw
       THEN [available |-> FALSE, biometryType |-> "undefined"]
       ELSE [available |-> TRUE,
             biometryType |->
               IF "FACIAL_RECOGNITION" \in types.types THEN "FaceID"
               ELSE IF "FINGERPRINT" \in types.types THEN "TouchID"
               ELSE "Biometrics"]
  ELSE [available |-> FALSE, biometryType |-> "undefined"]

\* part_000 lines 71-81: the label of the biometric button.
getBiometryLabel(biometryType) ==
  CASE biometryType = "FaceID" -> "Face ID"
    [] biometryType \in {"TouchID", "Biometrics"} -> "fingerprint"
    [] OTHER -> "biometrics"

\* part_000 lines 29-33: checkBiometrics, with the platform calls settling
\* with hasHardware, isEnrolled and types.
checkBiometrics(hasHardware, isEnrolled, types) ==
  LET ret == checkBiometricsAvailabilityReturn(hasHardware, isEnrolled, types) IN
    /\ checkBiometricsResolves(ret.available)
    /\ biometrics' =
         [hasHardware |-> hasHardware, isEnrolled |-> isEnrolled, types |-> types,
          biometryType |-> IF ret.biometryType = "undefined" THEN ""
                           ELSE ret.biometryType]

\* A LoginScreen that stays mounted keeps its state; one that mounts starts
\* from the useState defaults (part_000 lines 21-23).
LoginStateKept ==
  biometrics' = IF routes = <<"Login">> /\ routes' = <<"Login">>
                THEN biometrics ELSE NoBiometrics

NextLogin ==
  \/ checkAuth /\ LoginStateKept /\ LoginOnly
  \/ GetAuthItemResolves /\ LoginStateKept /\ LoginOnly
  \/ GetAuthItemRejects /\ LoginStateKept /\ LoginOnly
  \/ \E hasHardware \in ProbeResults, isEnrolled \in ProbeResults,
        types \in TypesResults :
       checkBiometrics(hasHardware, isEnrolled, types) /\ LoginOnly
  \/ handleBiometricLogin /\ LoginStateKept /\ LoginOnly
  \/ \E challenge \in {"success", "failed", "cancelled"} :
       ChallengeResolves(challenge) /\ LoginStateKept /\ LoginOnly
  \/ ChallengeRejects /\ LoginStateKept /\ LoginOnly
  \/ handleSimpleLogin /\ LoginStateKept /\ LoginOnly
  \/ handleLogout /\ LoginStateKept /\ LoginOnly
  \/ SetAuthItemResolves /\ LoginStateKept /\ LoginOnly
  \/ SetAuthItemRejects /\ LoginStateKept /\ LoginOnly
  \/ Restart /\ LoginStateKept /\ LoginOnly

\* The login screen with the platform's biometric calls.
SpecLogin == Init /\ [][NextLogin]_<<authVars, biometricsVars>>

\* ================================================ both storage services
NextStorage ==
  \/ getFavorites(SeqCaller) /\ UNCHANGED favLog /\ FavOnly
  \/ \E article \in Article :
       addToFavorites(SeqCaller, article) /\ UNCHANGED favLog /\ FavOnly
  \/ \E url \in Urls :
       removeFromFavorites(SeqCaller, url) /\ UNCHANGED favLog /\ FavOnly
  \/ \E url \in Urls : isFavorite(SeqCaller, url) /\ UNCHANGED favLog /\ FavOnly
  \/ GetItemResolves(SeqCaller) /\ UNCHANGED favLog /\ FavOnly
  \/ GetItemRejects(SeqCaller) /\ UNCHANGED favLog /\ FavOnly
  \/ SetItemResolves(SeqCaller) /\ UNCHANGED favLog /\ FavOnly
  \/ SetItemRejects(SeqCaller) /\ UNCHANGED favLog /\ FavOnly
  \/ NextAuth

\* The favorites store and the auth gate over one AsyncStorage whose
\* promises may reject.
SpecStorage == Init /\ [][NextStorage]_<<favVars, authVars>>

\* ================================================================ claims
\* The events that reset the page counter to 1.
ResetEvents == {"search", "filter", "refresh"}

\* The events that make a loadNews call.
IssueEvents == {"search", "filter", "refresh", "loadMore", "retry", "mount"}

\* C1: loadNews calls the search (everything) gateway function if and only
\* if its query is non-empty or dateRange is not 'all'; otherwise it calls
\* top-headlines with an empty query, its page number and the category
\* filter.  filters is the filters value loadNews read: the step that issued
\* the call is the last step.
C1_PathChoice ==
  lastEvent \in IssueEvents =>
    /\ (lastReq.call.fn = "searchNews")
         <=> (lastReq.query # "" \/ filters.dateRange # "all")
    /\ (lastReq.call.fn = "fetchTopHeadlines")
         <=> (lastReq.query = "" /\ filters.dateRange = "all")
    /\ lastReq.call.fn = "fetchTopHeadlines" =>
         /\ lastReq.call.category = filters.category
         /\ lastReq.call.query = ""
         /\ lastReq.call.page = lastReq.pageNum

\* C1 witness: a search was submitted with an empty query and dateRange
\* 'all' and took the top-headlines path, while a call on the search path
\* is outstanding.
C1_Witness ==
  /\ lastEvent = "search"
  /\ lastReq.query = "" /\ filters.dateRange = "all"
  /\ lastReq.call.fn = "fetchTopHeadlines"
  /\ \E r \in InFlightSet : r.call.fn = "searchNews"

\* C2 (as claimed): a filter change resets the page counter to 1, and the
\* next successful fetch after it replaces the accumulated list by the
\* articles of that response, whatever calls were outstanding.
C2_NextSuccessReplaces ==
  [][ /\ lastEvent' = "filter" => page' = 1
      /\ (filterPending /\ articlesDefined /\ lastEvent' = "success")
           => articles' = lastResp' ]_vars

\* C3 (as claimed): immediately after a search submission, a filter change
\* or a pull-to-refresh the accumulated list is empty.
C3_ListEmptyAfterReset == lastEvent \in ResetEvents => articles = <<>>

\* C3 (amended): a search submission, a filter change or a pull-to-refresh
\* sets the page counter to 1 and leaves the accumulated list exactly as it
\* was.
C3_ResetKeepsList ==
  [][ lastEvent' \in ResetEvents =>
        /\ page' = 1
        /\ articles' = articles
        /\ articlesDefined' = articlesDefined ]_vars

\* C3 witness: right after a reset event the page counter is 1 and the list
\* still holds the articles fetched before the event.
C3_Witness ==
  /\ lastEvent \in ResetEvents
  /\ page = 1
  /\ articles = <<"u2", "u1", "u2", "u1">>

\* C4 (as claimed): load more increments the page counter by one and calls
\* loadNews for that page with the current query and filters; a successful
\* response to a call for a page after the first appends its articles after
\* the accumulated list, in server order, and the screen shows them.
C4_LoadMoreAppends ==
  [][ /\ lastEvent' = "loadMore" =>
           /\ page' = page + 1
           /\ lastReq' = LoadNewsCall(page + 1, searchQuery, filters)
      /\ \A r \in InFlightSet :
           (lastEvent' = "success" /\ inflight' = Settle(r) /\ r.pageNum > 1) =>
             /\ articles' = articles \o lastResp'
             /\ articlesDefined'
             /\ ~crashed' ]_vars

\* C4 restricted to states whose accumulated list is an array: there the
\* append happens as claimed.
C4_AppendsWhenDefined ==
  [][ \A r \in InFlightSet :
        (lastEvent' = "success" /\ inflight' = Settle(r) /\ r.pageNum > 1
           /\ articlesDefined) =>
          /\ articles' = articles \o lastResp'
          /\ ~crashed' ]_vars

\* C5: when a gateway call fails, the error classification becomes non-null
\* and the accumulated list is left exactly as it was.
C5_FailureKeepsList ==
  [][ lastEvent' = "failure" =>
        /\ error' # "null"
        /\ articles' = articles
        /\ articlesDefined' = articlesDefined ]_vars

\* C5 witness: a call for page 2 has just failed and the list still holds
\* the first page.
C5_Witness ==
  /\ lastEvent = "failure"
  /\ failedReq.pageNum = 2
  /\ articles = <<"u2", "u1">>
  /\ error # "null"

\* C6: a caught failure is classified 'network' when it is a connectivity
\* or timeout condition, 'server' when the HTTP status is >= 500, 'general'
\* otherwise (404 included).
C6_Classification ==
  lastEvent = "failure" =>
    error = IF lastErr.cause \in {"offline", "timeout"} THEN "network"
            ELSE IF lastErr.status >= 500 THEN "server"
            ELSE "general"

\* C6 witness: an HTTP 500 has just been caught and classified 'server'.
C6_Witness ==
  /\ lastEvent = "failure"
  /\ lastErr.status = 500
  /\ error = "server"

\* C7 (as claimed): every failed retrieval, a malformed response body
\* included, ends with the error classification set (malformed: 'general'),
\* the accumulated list an array and no exception reaching the render.
C7_EveryFailureClassified ==
  lastEvent \in {"failure", "malformed"} =>
    /\ error # "null"
    /\ lastEvent = "malformed" => error = "general"
    /\ articlesDefined
    /\ ~crashed

\* C8 (as claimed): the retry of the error view issues the same call as the
\* one whose failure is shown: same gateway function, query, page, filters.
C8_RetrySameRequest ==
  [][ lastEvent' = "retry" => lastReq' = failedReq ]_vars

\* C9 (as claimed): the error view shows the title, icon and tips of the
\* pipeline's error classification.
C9_VariantFollowsClassification ==
  Rendered.screen = "ErrorView" =>
    /\ Rendered.title = getTitle(error)
    /\ Rendered.emoji = getEmoji(error)
    /\ Rendered.tips = getTips(error)

\* C10 (as claimed): after a failed retrieval the screen shows the error
\* view with a retry action when the list is empty, and the prior list with
\* a failure notice when it is not.
C10_FailureVisible ==
  (lastEvent = "failure" /\ ~crashed) =>
    IF Len(articles) = 0
    THEN Rendered.screen = "ErrorView" /\ Rendered.retry
    ELSE Rendered.screen = "list" /\ Rendered.items = articles /\ Rendered.notice

\* C11: there is no cancellation and no staleness guard: every successful
\* response is applied at the step it resolves, whether or not a newer call
\* has been made since.  A page-1 response replaces the list, so of several
\* outstanding page-1 calls the one resolving last leaves its articles as the
\* list, even when it is the older call; a later page is appended to the list
\* that the responses resolved before it left.
C11_LastResolvedWins ==
  [][ \A r \in InFlightSet :
        (lastEvent' = "success" /\ inflight' = Settle(r)) =>
          /\ r.pageNum = 1 => (articlesDefined' /\ articles' = lastResp')
          /\ (r.pageNum > 1 /\ articlesDefined) => articles' = articles \o lastResp' ]_vars

\* The mount call and a later 'bitcoin' search are both page-1 calls; the
\* search resolved first and the older call resolved last with a non-empty
\* page, which is now the list.
C11_Witness ==
  /\ lastEvent = "success"
  /\ staleApplied
  /\ newestReq = NoReq
  /\ searchQuery = "bitcoin"
  /\ page = 1
  /\ inflight = EmptyBag
  /\ articles = lastResp
  /\ Len(articles) > 0
  /\ ~crashed

\* The last two completed calls of the one caller of SpecFavSeq, when both
\* ran with a storage whose getItem and setItem promises resolved.
TwoCalls(op1, op2) ==
  /\ Len(favLog) = 2
  /\ favLog[1].op = op1 /\ favLog[2].op = op2
  /\ favLog[1].url = favLog[2].url
  /\ ~favLog[1].failed /\ ~favLog[2].failed

NoDuplicateUrl(favorites) ==
  \A i, j \in 1..Len(favorites) : favorites[i].url = favorites[j].url => i = j

\* C15: starting from an absent key, whatever calls are made and however
\* their reads and writes interleave or fail, the stored list never holds two
\* entries with the same url.
C15_NoDuplicates == NoDuplicateUrl(Parse(favStore))

\* Both callers added an article with url u1; both read before either wrote,
\* and both writes were stored.
C15_Witness ==
  /\ \A p \in Callers :
       /\ favCall[p].op = "addToFavorites" /\ favCall[p].url = "u1"
       /\ favCall[p].pc = "done" /\ ~favCall[p].writeFailed
       /\ favCall[p].pending = <<favCall[p].article>>
  /\ favCall["c1"].article # favCall["c2"].article
  /\ Parse(favStore) = <<favCall["c2"].article>>

\* C16: no storage failure leaves the favorites store or the auth gate: every
\* call of getFavorites, addToFavorites, removeFromFavorites, isFavorite,
\* getAuthState, saveAuthState and logout returns, whichever of its storage
\* promises rejected; after a rejected read getFavorites returns [] and
\* getAuthState returns the logged-out state.
C16_NoFailurePropagates ==
  /\ \A p \in Callers :
       /\ favCall[p].outcome # "threw"
       /\ favCall[p].pc = "done" => favCall[p].outcome = "returned"
       /\ (favCall[p].pc = "done" /\ favCall[p].op = "getFavorites"
             /\ favCall[p].readFailed) => favCall[p].list = <<>>
  /\ authCall.outcome # "threw"
  /\ authCall.pc = "done" => authCall.outcome = "returned"
  /\ (authCall.pc = "done" /\ authCall.handler = "checkAuth" /\ authCall.readFailed)
       => authCall.ret = LoggedOut

\* A getFavorites and a getAuthState whose reads were rejected although a
\* list and an authenticated state are stored.
C16_Witness ==
  /\ favCall[SeqCaller].pc = "done" /\ favCall[SeqCaller].op = "getFavorites"
  /\ favCall[SeqCaller].readFailed /\ Len(Parse(favStore)) > 0
  /\ authCall.pc = "done" /\ authCall.handler = "checkAuth" /\ authCall.readFailed
  /\ authStore.present /\ authStore.state.isAuthenticated

\* C17: once logout() has completed, the stored auth state, as getAuthState
\* reads it, is {isAuthenticated: false, biometricsEnabled: false}, whatever
\* was stored before and whether or not the write succeeded.
C17_LogoutPersists ==
  (authCall.handler = "handleLogout" /\ authCall.pc = "done") =>
    getAuthStateReturn(authStore, FALSE) = LoggedOut

AuthenticatedOnly == {"NewsList", "Favorites", "ArticleDetail"}

\* C18: the authenticated-only screens are mounted only while isAuthenticated
\* is true and the login screen only while it is false; the flag turns true
\* only when a login handler calls onLoginSuccess or checkAuth reads a stored
\* isAuthenticated = true; a confirmed logout leaves it false.
C18_GateFollowsFlag ==
  [][ /\ \A i \in 1..Len(routes') :
           /\ routes'[i] \in AuthenticatedOnly => isAuthenticated'
           /\ routes'[i] = "Login" => ~isAuthenticated'
      /\ (~isAuthenticated /\ isAuthenticated') =>
           \/ /\ authCall.handler \in {"handleBiometricLogin", "handleSimpleLogin"}
              /\ authCall'.loginSuccess
           \/ /\ authCall.handler = "checkAuth" /\ authCall.pc = "getItem"
              /\ authStore.present /\ authStore.state.isAuthenticated
      /\ (authCall.handler = "handleLogout" /\ authCall.pc = "setItem"
            /\ authCall'.pc = "done") => ~isAuthenticated' ]_authVars

\* A logout confirmed while the flag was true has completed: the login
\* screen is the only screen mounted.
C18_Witness ==
  /\ authCall.handler = "handleLogout" /\ authCall.pc = "done"
  /\ authCall.flagBefore
  /\ ~isAuthenticated
  /\ routes = <<"Login">>

\* C19: when the biometric prompt fails, is cancelled or throws,
\* authenticateWithBiometrics returns false, the stored auth state is what it
\* was, onLoginSuccess is not called (the flag stays false) and the login
\* screen's loading is false again.
C19_FailedChallenge ==
  (authCall.handler = "handleBiometricLogin" /\ authCall.pc = "done"
     /\ authCall.challenge \in {"failed", "cancelled", "threw"}) =>
    /\ authCall.success = "false"
    /\ authStore = authCall.pre
    /\ ~authCall.loginSuccess
    /\ ~isAuthenticated
    /\ ~loginLoading
    /\ LoginMounted

\* The prompt threw while a logged-out state from an earlier logout is stored.
C19_Witness ==
  /\ authCall.handler = "handleBiometricLogin" /\ authCall.pc = "done"
  /\ authCall.challenge = "threw"
  /\ authStore = AuthStringify(LoggedOut)
  /\ ~loginLoading /\ ~isAuthenticated

\* C20: after handleSimpleLogin has completed, the stored auth state is
\* {isAuthenticated: true, biometricsEnabled: false} and the navigator's flag
\* is true, with no biometric prompt shown: stored flag and flag in memory
\* agree.
C20_SimpleLoginAgrees ==
  (authCall.handler = "handleSimpleLogin" /\ authCall.pc = "done") =>
    /\ authStore = AuthStringify([isAuthenticated |-> TRUE, biometricsEnabled |-> FALSE])
    /\ isAuthenticated
    /\ authCall.challenge = "none"
    /\ getAuthStateReturn(authStore, FALSE).isAuthenticated = isAuthenticated

\* C21 (as claimed): fetchTopHeadlines sends a non-empty query and then
\* neither a country nor a category parameter, whatever the category; with
\* an empty query it sends the default country, and a category parameter
\* exactly when the category is not 'all'.
C21_QueryDropsCategory ==
  (gateway.fn = "fetchTopHeadlines" /\ gateway.args.category # "undefined") =>
    LET a == gateway.args
        params == gateway.request.params
    IN  IF a.query # ""
        THEN /\ "q" \in DOMAIN params /\ params.q = a.query
             /\ "country" \notin DOMAIN params
             /\ "category" \notin DOMAIN params
        ELSE /\ "q" \notin DOMAIN params
             /\ "country" \in DOMAIN params /\ params.country = "us"
             /\ "category" \in DOMAIN params <=> a.category # "all"

\* C21 (amended): fetchTopHeadlines sends a non-empty query in place of the
\* country and the default country in place of an empty query; whether or
\* not a query is given, it sends the category exactly when a category is
\* given and is not 'all'.
C21_QueryDropsCountryOnly ==
  gateway.fn = "fetchTopHeadlines" =>
    LET a == gateway.args
        params == gateway.request.params
    IN  /\ IF a.query # ""
           THEN /\ "q" \in DOMAIN params /\ params.q = a.query
                /\ "country" \notin DOMAIN params
           ELSE /\ "q" \notin DOMAIN params
                /\ "country" \in DOMAIN params /\ params.country = "us"
        /\ "category" \in DOMAIN params <=> a.category \notin {"all", "undefined"}
        /\ "category" \in DOMAIN params => params.category = a.category

\* C21 witness: a call with a query and the category 'business' sends both
\* and no country.
C21_Witness ==
  /\ gateway.fn = "fetchTopHeadlines"
  /\ gateway.args.query = "bitcoin"
  /\ gateway.args.category = "business"
  /\ gateway.request.params.q = "bitcoin"
  /\ gateway.request.params.category = "business"
  /\ "country" \notin DOMAIN gateway.request.params

\* C22: a failed call is not made again: the step in which a call fails
\* settles that one call and makes no call, and a call is only ever made by
\* a trigger (mount, search submission, filter change, pull-to-refresh, load
\* more, manual retry).
C22_FailureIsTerminal ==
  [][ /\ lastEvent' = "failure" =>
           /\ calls' = calls
           /\ \E r \in InFlightSet : inflight' = Settle(r)
      /\ (calls' # calls \/ BagCardinality(inflight') > BagCardinality(inflight))
           => lastEvent' \in IssueEvents ]_vars

\* C22 witness: a call has just failed, nothing is outstanding and the run
\* could still make calls.
C22_Witness ==
  /\ lastEvent = "failure"
  /\ inflight = EmptyBag
  /\ calls < MaxCalls
  /\ ~crashed

\* The five triggers C23 names.
LoadingTriggers == {"mount", "filter", "search", "refresh", "loadMore"}

\* C23 (as claimed): each of the five triggers puts the screen into Loading
\* (loading or refreshing true), and it stays there for as long as the call
\* that trigger made is outstanding: another call settling right after the
\* trigger leaves a flag true.
C23_LoadingWhileOutstanding ==
  [][ /\ lastEvent' \in LoadingTriggers => (loading' \/ refreshing')
      /\ ( /\ lastEvent \in LoadingTriggers
           /\ lastEvent' \in {"success", "malformed", "failure"}
           /\ newestReq' # NoReq )
           => (loading' \/ refreshing') ]_vars

\* C24 (as claimed): after checkBiometrics the screen has biometrics
\* available exactly when the hardware is present and a credential is
\* enrolled (not available when either of these two platform checks throws);
\* and biometric authentication is offered and run by availability alone,
\* whatever kind was reported.
C24_AvailableIffHardwareAndEnrolled ==
  [][ /\ biometrics'.hasHardware # "none" =>
           (biometricsAvailable' <=>
              (biometrics'.hasHardware = "true" /\ biometrics'.isEnrolled = "true"))
      /\ (authCall'.pc = "challenge" /\ authCall.pc # "challenge") =>
           /\ biometricsAvailable
           /\ authCall' = [NoAuthCall EXCEPT !.handler = "handleBiometricLogin",
                                             !.pc = "challenge", !.pre = authStore,
                                             !.flagBefore = isAuthenticated]
    ]_<<authVars, biometricsVars>>

\* C25 (as claimed): a load more or a pull-to-refresh requests its page for
\* the query of the last submitted search, not for text that was typed and
\* never submitted.
C25_SessionQuery ==
  [][ lastEvent' \in {"loadMore", "refresh"} => lastReq'.query = submittedQuery
    ]_<<vars, sessionVars>>

\* The pages 1..k in increasing order.
PageRun(k) == [n \in 1..k |-> n]

\* C26 (as claimed): the responses applied to the list since the page
\* counter was last reset are those for pages 1..k, in that order with none
\* missing and none repeated, for some k not greater than the page counter.
C26_ListIsPageRun ==
  articlesDefined => \E k \in 0..page : listPages = PageRun(k)

\* C27 (as claimed): a storage failure during addToFavorites or
\* removeFromFavorites leaves the stored favorites as they were; when the
\* read of the call fails, the call performs no write.
C27_FailureKeepsStore ==
  [][ \A p \in Callers :
        favCall'[p].op \in {"addToFavorites", "removeFromFavorites"} =>
          /\ favCall'[p].readFailed =>
               (favCall'[p].pc # "setItem" /\ favStore' = favStore)
          /\ favCall'[p].writeFailed => favStore' = favStore ]_favVars

\* The stored list after the mutation of call c is applied to favorites.
Applied(c, favorites) ==
  IF c.op = "addToFavorites"
  THEN IF Some(favorites, c.url) THEN favorites ELSE Append(favorites, c.article)
  ELSE Filter(favorites, c.url)

\* C28 (as claimed): no update is lost when mutations on distinct urls
\* overlap: a mutation whose storage calls succeed, and that other callers'
\* writes overlapped only on other urls, leaves the stored list as its
\* mutation applied to the list stored just before its write, as if the
\* overlapping mutations had run one after the other.
C28_NoLostUpdate ==
  [][ \A p \in Callers :
        ( /\ favCall[p].op \in {"addToFavorites", "removeFromFavorites"}
          /\ favCall[p].pc = "setItem" /\ favCall'[p].pc = "done"
          /\ ~favCall'[p].readFailed /\ ~favCall'[p].writeFailed
          /\ favCall[p].url \notin favTouched[p] )
          => Parse(favStore') = Applied(favCall[p], Parse(favStore))
    ]_<<favVars, overlapVars>>

\* C29 (as claimed): when every call that was made settles, a raised
\* loading or refreshing flag is eventually followed by a state in which
\* both flags are false.
C29_FlagsEventuallyClear ==
  (loading \/ refreshing) ~> (~loading /\ ~refreshing)

\* C30 (as claimed): selecting an option, pressing Reset and closing the
\* modal leave the applied filters, the page counter and the list as they
\* were; the applied filters change only when Apply is pressed; and a modal
\* that is opened shows the applied filters as its draft.
C30_DraftFollowsApplied ==
  [][ /\ modalEvent' \in {"select", "reset", "close"} =>
           /\ filters' = filters
           /\ page' = page
           /\ articles' = articles
      /\ filters' # filters => modalEvent' = "apply"
      /\ modalEvent' = "open" => modalFilters' = filters'
    ]_<<vars, modalVars>>

====
